---------------------------- MODULE Spec2Model ----------------------------
(***************************************************************************)
(* A model of gem-daily-downloads (src/src/main.rs): the gap filler        *)
(* better_gems_to_downloads, the aggregator group_downloads, the ranking   *)
(* query top with read_gem_downloads, and the path encoder                 *)
(* better_gem_path.                                                        *)
(*                                                                         *)
(* A NaiveDate is modelled by its day number (an integer), so that         *)
(* pred_opt/succ_opt are -1/+1 and (a - b).num_days() is a - b.  An        *)
(* Option<i64> is modelled by a sequence: None is <<>>, Some(v) is <<v>>.  *)
(* A String is modelled by the sequence of its bytes.  Totals stay far     *)
(* below the i64 range, so no arithmetic of the model overflows.           *)
(***************************************************************************)
EXTENDS Integers, Sequences, FiniteSets, TLC

VARIABLES
    pc,           \* position of the modelled run: "ready", "done"
    better_gems,  \* fill: the parsed, date-sorted samples of one gem
    downloads,    \* fill: the Vec<Download> returned
    series,       \* group: the slice of Downloads, one per gem
    dates,        \* group: the Vec<(NaiveDate, Vec<GemDownload>)> returned
    files,        \* top: the dates/ directory, day number -> file state
    query,        \* top: the arguments of the Top command
    result,       \* top: outcome of the latest run of top
    previous,     \* top: outcome of the run before the latest one
    names,        \* path: a pair of gem names
    paths         \* path: the pair of paths computed for them

vars == <<pc, better_gems, downloads, series, dates, files, query, result,
          previous, names, paths>>

None == <<>>
Some(v) == <<v>>

(***************************************************************************)
(* Bounds of the model.                                                    *)
(***************************************************************************)
MaxDate == 5
MaxTotal == 4
MaxSamples == 3
GroupMaxDate == 3
GroupMaxSamples == 2
TopMaxTotal == 1
MaxCount == 2
MaxNameLen == 3

Dates == 1..MaxDate
Totals == 0..MaxTotal

(***************************************************************************)
(* GapFiller: better_gems_to_downloads.                                    *)
(***************************************************************************)
BetterGem(date, total_downloads) ==
    [date |-> date, total_downloads |-> total_downloads]

Download(date, total_downloads, daily_downloads) ==
    [date |-> date, total_downloads |-> total_downloads,
     daily_downloads |-> daily_downloads]

\* Rust's i64 division: the quotient is truncated toward zero.
TruncDiv(a, b) ==
    IF a >= 0 THEN a \div b ELSE -((-a) \div b)

\* The sample lists parse_better_gem_file can return: sort_by_key orders them
\* by date and removes nothing, so equal dates may be adjacent.
SortedDates(n, days) ==
    {ds \in [1..n -> days] : \A k \in 1..(n - 1) : ds[k] <= ds[k + 1]}

Samples(ds, ts) == [k \in 1..Len(ds) |-> BetterGem(ds[k], ts[k])]

StrictlyIncreasing(samples) ==
    \A k \in 1..(Len(samples) - 1) : samples[k].date < samples[k + 1].date

\* The record the loop starts from: the day before the first sample, total 0.
Baseline(start_date) == Download(start_date, 0, None)

\* The condition that ends `for i in 1..=days_between`.
LoopDoneExclusive(i, days_between) == i >= days_between

LoopDone(i, days_between) == i > days_between

\* total_downloads of the interpolated day (lines 152-154).
InterpolateDivideFirst(last_total, target_total, i, days_between) ==
    last_total + TruncDiv(target_total - last_total, days_between) * i

Interpolate(last_total, target_total, i, days_between) ==
    last_total + TruncDiv((target_total - last_total) * i, days_between)

\* The value stored in daily_downloads of the record about to be pushed.
DailyIncreaseNoSubtract(new_total, last_total) == Some(new_total)

DailyIncrease(new_total, last_total) == Some(new_total - last_total)

\* The branch days_between == 1 (lines 139-147).
AdjacentStepBackward(out, last_download, better_gem) ==
    [out  |-> Append(out, last_download),
     last |-> Download(better_gem.date, better_gem.total_downloads,
                       DailyIncrease(better_gem.total_downloads,
                                     last_download.total_downloads))]

AdjacentStep(out, last_download, better_gem) ==
    [out  |-> Append(out,
                [last_download EXCEPT !.daily_downloads =
                    DailyIncrease(better_gem.total_downloads,
                                  last_download.total_downloads)]),
     last |-> Download(better_gem.date, better_gem.total_downloads, None)]

\* The inner loop (lines 149-164): last_download is replaced in every round,
\* so total_diff is taken from the previously interpolated day.
RECURSIVE InterpolateLoop(_, _, _, _, _)
InterpolateLoop(out, last_download, better_gem, i, days_between) ==
    IF LoopDone(i, days_between) THEN [out |-> out, last |-> last_download]
    ELSE LET interpolated_date == last_download.date + 1
             total_downloads ==
                 Interpolate(last_download.total_downloads,
                             better_gem.total_downloads, i, days_between)
             pushed ==
                 [last_download EXCEPT !.daily_downloads =
                     DailyIncrease(total_downloads,
                                   last_download.total_downloads)]
             interpolated == Download(interpolated_date, total_downloads, None)
         IN  InterpolateLoop(Append(out, pushed), interpolated, better_gem,
                             i + 1, days_between)

\* The outer loop over the samples (lines 133-166), from sample k on.
RECURSIVE SampleLoop(_, _, _, _)
SampleLoop(out, last_download, samples, k) ==
    IF k > Len(samples) THEN [out |-> out, last |-> last_download]
    ELSE LET better_gem == samples[k]
             days_between == better_gem.date - last_download.date
             next == IF days_between = 1
                     THEN AdjacentStep(out, last_download, better_gem)
                     ELSE InterpolateLoop(out, last_download, better_gem, 1,
                                          days_between)
         IN  SampleLoop(next.out, next.last, samples, k + 1)

better_gems_to_downloads(samples) ==
    IF Len(samples) = 0 THEN <<>>
    ELSE LET start_date == samples[1].date - 1
             loop == SampleLoop(<<>>, Baseline(start_date), samples, 1)
         IN  Append(loop.out, loop.last)

InitFill ==
    /\ pc = "ready"
    /\ \E n \in 0..MaxSamples :
       \E ds \in SortedDates(n, Dates) :
       \E ts \in [1..n -> Totals] :
           better_gems = Samples(ds, ts)
    /\ downloads = <<>>
    /\ series = <<>> /\ dates = <<>>
    /\ files = <<>> /\ query = <<>> /\ result = <<>> /\ previous = <<>>
    /\ names = <<>> /\ paths = <<>>

Fill ==
    /\ pc = "ready"
    /\ downloads' = better_gems_to_downloads(better_gems)
    /\ pc' = "done"
    /\ UNCHANGED <<better_gems, series, dates, files, query, result, previous,
                   names, paths>>

NextFill == Fill

SpecFill == InitFill /\ [][NextFill]_vars

(***************************************************************************)
(* Properties of the gap filler.                                           *)
(***************************************************************************)
FillDone ==
    pc = "done" /\ Len(better_gems) > 0 /\ StrictlyIncreasing(better_gems)

FirstDay == better_gems[1].date - 1
LastDay == better_gems[Len(better_gems)].date

\* The point before sample k: the baseline for k = 1, else sample k - 1.
PointBefore(k) ==
    IF k = 1 THEN BetterGem(FirstDay, 0) ELSE better_gems[k - 1]

GapBefore(k) == better_gems[k].date - PointBefore(k).date

RecordsOn(day) == {j \in 1..Len(downloads) : downloads[j].date = day}

\* The quotient rounded down, as the floor formula of the specification reads.
FloorDiv(a, b) == a \div b

RECURSIVE SumDaily(_)
SumDaily(records) ==
    IF Len(records) = 0 THEN 0
    ELSE (IF records[1].daily_downloads = None THEN 0
          ELSE records[1].daily_downloads[1]) + SumDaily(Tail(records))

\* C1: for a non-empty sample list with strictly increasing dates the series
\* holds exactly one record per calendar day from the day before the first
\* sample through the last sample's day, in increasing order one day apart,
\* and its first record is the baseline with total 0.
C1_Density ==
    FillDone =>
        /\ Len(downloads) = LastDay - FirstDay + 1
        /\ \A j \in 1..Len(downloads) : downloads[j].date = FirstDay + j - 1
        /\ \A day \in FirstDay..LastDay : Cardinality(RecordsOn(day)) = 1
        /\ downloads[1].date = FirstDay
        /\ downloads[1].total_downloads = 0

C1_Witness ==
    /\ FillDone
    /\ Len(better_gems) >= 2
    /\ \E k \in 2..Len(better_gems) : GapBefore(k) > 2
    /\ Len(downloads) = LastDay - FirstDay + 1
    /\ Len(downloads) >= 5

\* C2: the last interpolation step reproduces the sample exactly: for every
\* raw sample (d, v) of a strictly date-increasing input, the record dated d
\* exists and has total_downloads = v, also when the value decreases.
C2_GapReconstruction ==
    FillDone =>
        \A k \in 1..Len(better_gems) :
            /\ RecordsOn(better_gems[k].date) # {}
            /\ \A j \in RecordsOn(better_gems[k].date) :
                   downloads[j].total_downloads = better_gems[k].total_downloads

C2_Witness ==
    /\ FillDone
    /\ \E k \in 2..Len(better_gems) :
           /\ GapBefore(k) = 3
           /\ better_gems[k].total_downloads + 2 = better_gems[k - 1].total_downloads
           /\ \E j \in RecordsOn(better_gems[k].date) :
                  downloads[j].total_downloads = better_gems[k].total_downloads

\* C3: across a gap of more than one day from point (d0, v0) to sample
\* (d1, v1), the record of day d0 + i has total v0 + floor((v1 - v0) * i / gap)
\* for every i in 1..gap, v0 being the value at the start of the gap.
C3_LinearFromGapStart ==
    FillDone =>
        \A k \in 1..Len(better_gems) :
            GapBefore(k) > 1 =>
                \A i \in 1..GapBefore(k) :
                    \A j \in RecordsOn(PointBefore(k).date + i) :
                        downloads[j].total_downloads =
                            PointBefore(k).total_downloads
                            + FloorDiv((better_gems[k].total_downloads
                                        - PointBefore(k).total_downloads) * i,
                                       GapBefore(k))

C5_DeltaTelescoping ==
    FillDone =>
        SumDaily(downloads) = better_gems[Len(better_gems)].total_downloads

C5_Witness ==
    /\ FillDone
    /\ Len(better_gems) = 3
    /\ GapBefore(2) > 1
    /\ better_gems[2].total_downloads > better_gems[3].total_downloads
    /\ better_gems[3].total_downloads > 0
    /\ SumDaily(downloads) = better_gems[3].total_downloads

(***************************************************************************)
(* Aggregator: group_downloads.                                            *)
(***************************************************************************)
GemDownload(name, total_downloads, daily_downloads) ==
    [name |-> name, total_downloads |-> total_downloads,
     daily_downloads |-> daily_downloads]

Downloads(name, records) == [name |-> name, downloads |-> records]

\* The gems of a run, in the sorted order download_better_gems returns them.
GroupGems == <<"a", "b">>
GroupTotals == {0, 1}

GroupSamples ==
    UNION { {s \in {Samples(ds, ts) : ds \in SortedDates(n, 1..GroupMaxDate),
                                      ts \in [1..n -> GroupTotals]} :
                StrictlyIncreasing(s)}
            : n \in 0..GroupMaxSamples }

\* grouped.entry(date).or_default().push(entry) on the HashMap, modelled as a
\* function from the dates present to their entry lists.
GroupInsertOverwrite(grouped, date, entry) ==
    (date :> <<entry>>) @@ grouped

GroupInsert(grouped, date, entry) ==
    IF date \in DOMAIN grouped
    THEN [grouped EXCEPT ![date] = Append(@, entry)]
    ELSE grouped @@ (date :> <<entry>>)

\* for download in &dl.downloads (lines 184-190), from record j on.
RECURSIVE GroupRecords(_, _, _)
GroupRecords(grouped, dl, j) ==
    IF j > Len(dl.downloads) THEN grouped
    ELSE LET download == dl.downloads[j]
         IN  GroupRecords(
                 GroupInsert(grouped, download.date,
                             GemDownload(dl.name, download.total_downloads,
                                         download.daily_downloads)),
                 dl, j + 1)

\* downloads.iter().for_each (lines 177-191), from series i on.
RECURSIVE GroupAll(_, _, _)
GroupAll(grouped, list, i) ==
    IF i > Len(list) THEN grouped
    ELSE GroupAll(GroupRecords(grouped, list[i], 1), list, i + 1)

\* The orders in which a HashMap of the given keys may be iterated.
RECURSIVE IterationOrders(_)
IterationOrders(keys) ==
    IF keys = {} THEN {<<>>}
    ELSE UNION { { <<x>> \o p : p \in IterationOrders(keys \ {x}) } : x \in keys }

\* A stable sort of a sequence of <<key, value>> pairs by ascending key, as
\* sort_by_key and sorted_by_key do.
InsertByKey(sorted, item) ==
    LET after == {k \in 1..Len(sorted) : sorted[k][1] <= item[1]}
        n == Cardinality(after)
    IN  SubSeq(sorted, 1, n) \o <<item>> \o SubSeq(sorted, n + 1, Len(sorted))

RECURSIVE SortByKey(_)
SortByKey(pairs) ==
    IF Len(pairs) = 0 THEN <<>>
    ELSE InsertByKey(SortByKey(SubSeq(pairs, 1, Len(pairs) - 1)),
                     pairs[Len(pairs)])

\* group_downloads, given the order in which grouped.into_iter() yields.
group_downloads(list, order) ==
    LET grouped == GroupAll(<<>>, list, 1)
        collected == [k \in 1..Len(order) |-> <<order[k], grouped[order[k]]>>]
    IN  SortByKey(collected)

InitGroup ==
    /\ pc = "ready"
    /\ \E n \in 0..Len(GroupGems) :
           \E samples \in [1..n -> GroupSamples] :
               series = [i \in 1..n |->
                            Downloads(GroupGems[i],
                                      better_gems_to_downloads(samples[i]))]
    /\ dates = <<>>
    /\ better_gems = <<>> /\ downloads = <<>>
    /\ files = <<>> /\ query = <<>> /\ result = <<>> /\ previous = <<>>
    /\ names = <<>> /\ paths = <<>>

Group ==
    /\ pc = "ready"
    /\ \E order \in IterationOrders(DOMAIN GroupAll(<<>>, series, 1)) :
           dates' = group_downloads(series, order)
    /\ pc' = "done"
    /\ UNCHANGED <<better_gems, downloads, series, files, query, result,
                   previous, names, paths>>

NextGroup == Group

SpecGroup == InitGroup /\ [][NextGroup]_vars

(***************************************************************************)
(* Properties of the aggregator.                                           *)
(***************************************************************************)
RECURSIVE TotalEntries(_)
TotalEntries(groups) ==
    IF Len(groups) = 0 THEN 0
    ELSE Len(groups[1][2]) + TotalEntries(Tail(groups))

RECURSIVE TotalRecords(_)
TotalRecords(list) ==
    IF Len(list) = 0 THEN 0
    ELSE Len(list[1].downloads) + TotalRecords(Tail(list))

RecordDates ==
    UNION { {series[i].downloads[j].date : j \in 1..Len(series[i].downloads)} :
            i \in 1..Len(series) }

\* The entries of group g that belong to gem `name`, in the group's order.
EntriesOf(g, name) ==
    LET ofName(e) == e.name = name IN SelectSeq(dates[g][2], ofName)

\* The records of series i dated `day`, as the entries they should become.
RecordsOf(i, day) ==
    LET onDay(r) == r.date = day
        found == SelectSeq(series[i].downloads, onDay)
    IN  [k \in 1..Len(found) |->
            GemDownload(series[i].name, found[k].total_downloads,
                        found[k].daily_downloads)]

\* C6: every record of every input series is in exactly one DateGroup, the
\* one of its date, nothing is dropped or deduplicated (the entries of all
\* groups number the records of all series), there is exactly one group per
\* distinct date, and the groups are in ascending date order.
C6_GroupingComplete ==
    pc = "done" =>
        /\ TotalEntries(dates) = TotalRecords(series)
        /\ \A g \in 1..Len(dates) : \A i \in 1..Len(series) :
               EntriesOf(g, series[i].name) = RecordsOf(i, dates[g][1])
        /\ {dates[g][1] : g \in 1..Len(dates)} = RecordDates
        /\ Len(dates) = Cardinality(RecordDates)
        /\ \A g \in 1..(Len(dates) - 1) : dates[g][1] < dates[g + 1][1]

C6_Witness ==
    /\ pc = "done"
    /\ Len(series) = 2
    /\ Len(series[1].downloads) = 3
    /\ Len(series[2].downloads) = 2
    /\ series[1].downloads[1].date = 0
    /\ series[2].downloads[1].date = 2
    /\ Len(dates) = 4
    /\ Len(dates[3][2]) = 2
    /\ TotalEntries(dates) = 5

(***************************************************************************)
(* RangeRanker: date_path, read_gem_downloads and top.                     *)
(***************************************************************************)
DeGemDownload(name, total_downloads) ==
    [name |-> name, total_downloads |-> total_downloads]

\* The calendar around the modelled days: year, month and day of each.
Calendar ==
    <<[year |-> 2023, month |-> 12, day |-> 29],
      [year |-> 2023, month |-> 12, day |-> 30],
      [year |-> 2023, month |-> 12, day |-> 31],
      [year |-> 2024, month |-> 1, day |-> 1],
      [year |-> 2024, month |-> 1, day |-> 2]>>

\* format!("dates/{}/{:02}/{}.csv", date.year(), date.month(), date)
date_path(date) ==
    [dir |-> "dates", year |-> Calendar[date].year,
     month |-> Calendar[date].month, file |-> Calendar[date], ext |-> "csv"]

Ok(v) == [ok |-> TRUE, value |-> v]
Err(context, path) == [ok |-> FALSE, context |-> context, path |-> path]

\* fold_ok over the rows: hm.insert(name, gd), a later row replacing an
\* earlier one of the same name.
RECURSIVE FoldRows(_, _)
FoldRows(hm, rows) ==
    IF Len(rows) = 0 THEN hm
    ELSE FoldRows((rows[1].name :> rows[1]) @@ hm, Tail(rows))

read_gem_downloads_or_empty(fs, date) ==
    LET path == date_path(date)
    IN  IF path \notin DOMAIN fs THEN Ok(<<>>)
        ELSE IF fs[path].kind = "corrupt" THEN Ok(<<>>)
        ELSE Ok(FoldRows(<<>>, fs[path].rows))

read_gem_downloads(fs, date) ==
    LET path == date_path(date)
    IN  IF path \notin DOMAIN fs THEN Err("Failed to open file", path)
        ELSE IF fs[path].kind = "corrupt"
             THEN Err("Failed to read csv file", path)
        ELSE Ok(FoldRows(<<>>, fs[path].rows))

Diff(name, diff, start, end) ==
    [name |-> name, diff |-> diff, start |-> start, end |-> end]

\* The closure of .map (lines 497-506).
ToDiff(end, start_downloads) ==
    LET start == IF end.name \in DOMAIN start_downloads
                 THEN start_downloads[end.name].total_downloads
                 ELSE 0
    IN  Diff(end.name, end.total_downloads - start, start, end.total_downloads)

Min(a, b) == IF a <= b THEN a ELSE b

\* .filter(|gd| !only_new || gd.start == 0).take(count) (lines 508-509).
SelectTakeFirst(sorted, count, only_new) ==
    LET keep(gd) == ~only_new \/ gd.start = 0
    IN  SelectSeq(SubSeq(sorted, 1, Min(count, Len(sorted))), keep)

Select(sorted, count, only_new) ==
    LET keep(gd) == ~only_new \/ gd.start = 0
        filtered == SelectSeq(sorted, keep)
    IN  SubSeq(filtered, 1, Min(count, Len(filtered)))

\* The ranking (lines 495-510), `order` being the order in which
\* end_downloads.values() yields the entries of the HashMap.
Ranking(start_downloads, end_downloads, order, count, only_new) ==
    LET diffs == [k \in 1..Len(order) |->
                     ToDiff(end_downloads[order[k]], start_downloads)]
        keyed == [k \in 1..Len(diffs) |-> <<-diffs[k].diff, diffs[k]>>]
        sorted == SortByKey(keyed)
    IN  Select([k \in 1..Len(sorted) |-> sorted[k][2]], count, only_new)

\* What top prints before the rows (lines 512-518).
Heading(count, start, end) ==
    <<[line |-> "Top", count |-> count, start |-> Calendar[start],
       end |-> Calendar[end]],
      [line |-> "Name Start End Diff"],
      [line |-> "----"]>>

\* The start date: end - duration, in whole days.
StartOf(q) == q.end - q.duration

\* One run of top: the error it returns if any, what it prints, and the
\* files it tried to open, in order.
top(fs, q, order) ==
    LET start == StartOf(q)
        start_downloads == read_gem_downloads(fs, start)
        end_downloads == read_gem_downloads(fs, q.end)
    IN  IF ~start_downloads.ok
        THEN [error |-> Some(start_downloads), stdout |-> <<>>,
              opened |-> <<date_path(start)>>]
        ELSE IF ~end_downloads.ok
        THEN [error |-> Some(end_downloads), stdout |-> <<>>,
              opened |-> <<date_path(start), date_path(q.end)>>]
        ELSE [error |-> None,
              stdout |-> Heading(q.count, start, q.end)
                         \o Ranking(start_downloads.value, end_downloads.value,
                                    order, q.count, q.only_new),
              opened |-> <<date_path(start), date_path(q.end)>>]

\* The orders in which the end snapshot's HashMap may be iterated in a run.
TopOrders(fs, q) ==
    LET start_downloads == read_gem_downloads(fs, StartOf(q))
        end_downloads == read_gem_downloads(fs, q.end)
    IN  IF start_downloads.ok /\ end_downloads.ok
        THEN IterationOrders(DOMAIN end_downloads.value)
        ELSE {<<>>}

\* The gems of the persisted snapshots, in the order their rows are written.
TopGems == <<"a", "b", "c">>

\* The rows of a date's csv file: one per gem present, names unique.
RowsOf(present, totals) ==
    LET isPresent(i) == i \in present
        idx == SelectSeq([i \in 1..Len(TopGems) |-> i], isPresent)
    IN  [k \in 1..Len(idx) |-> DeGemDownload(TopGems[idx[k]], totals[idx[k]])]

CsvFile(rows) == [kind |-> "csv", rows |-> rows]
CorruptFile == [kind |-> "corrupt"]

\* The states of one date's file: absent (NoFile), unreadable, or a snapshot.
NoFile == [kind |-> "missing"]
FileStates(totals) ==
    {NoFile, CorruptFile} \cup
    UNION { {CsvFile(RowsOf(present, t)) : t \in [present -> totals]} :
            present \in SUBSET (1..Len(TopGems)) }

\* The dates/ directory, keyed by path, holding what is persisted for the
\* start day and the end day of a query.
Directory(start, start_file, end, end_file) ==
    LET held == {d \in {start, end} :
                    (IF d = end THEN end_file ELSE start_file) # NoFile}
    IN  [p \in {date_path(d) : d \in held} |->
            IF p = date_path(end) THEN end_file ELSE start_file]

\* The durations of a query in whole days: under a day, or one day.
Durations == {0, 1}

ExampleStart == CsvFile(<<DeGemDownload("a", 100), DeGemDownload("b", 50)>>)
ExampleEnd ==
    CsvFile(<<DeGemDownload("a", 150), DeGemDownload("b", 40),
              DeGemDownload("c", 10)>>)

InitTop ==
    /\ pc = "ready"
    /\ \E end \in {Len(Calendar) - 1, Len(Calendar)} :
       \E duration \in Durations :
       \E count \in 1..MaxCount :
       \E only_new \in BOOLEAN :
           /\ query = [end |-> end, duration |-> duration, count |-> count,
                       only_new |-> only_new]
           /\ \/ \E start_file, end_file \in FileStates(0..TopMaxTotal) :
                     /\ duration = 0 => start_file = end_file
                     /\ files = Directory(end - duration, start_file,
                                          end, end_file)
              \/ /\ duration > 0
                 /\ files = Directory(end - duration, ExampleStart,
                                      end, ExampleEnd)
    /\ result = <<>> /\ previous = <<>>
    /\ better_gems = <<>> /\ downloads = <<>>
    /\ series = <<>> /\ dates = <<>>
    /\ names = <<>> /\ paths = <<>>

\* One execution of the Top command on the persisted files; the command is
\* run twice on the same files, `previous` keeping the first run's outcome.
Top ==
    /\ previous = <<>>
    /\ \E order \in TopOrders(files, query) :
           result' = top(files, query, order)
    /\ previous' = result
    /\ pc' = "done"
    /\ UNCHANGED <<better_gems, downloads, series, dates, files, query,
                   names, paths>>

NextTop == Top

SpecTop == InitTop /\ [][NextTop]_vars

(***************************************************************************)
(* Properties of the ranking query.                                        *)
(***************************************************************************)
\* Whether the snapshot persisted for `day` can be read.
Readable(day) ==
    \E p \in DOMAIN files : p.file = Calendar[day] /\ files[p].kind = "csv"

SnapshotRows(day) ==
    files[CHOOSE p \in DOMAIN files : p.file = Calendar[day]].rows

SnapshotNames(day) ==
    {SnapshotRows(day)[k].name : k \in 1..Len(SnapshotRows(day))}

SnapshotTotal(day, name) ==
    LET rows == SnapshotRows(day)
    IN  rows[CHOOSE k \in 1..Len(rows) : rows[k].name = name].total_downloads

\* The rows top printed after its three heading lines.
RowsOfRun(run) == SubSeq(run.stdout, 4, Len(run.stdout))

StartTotal(name) ==
    IF name \in SnapshotNames(StartOf(query))
    THEN SnapshotTotal(StartOf(query), name) ELSE 0

GrowthOf(name) == SnapshotTotal(query.end, name) - StartTotal(name)

Remaining ==
    {n \in SnapshotNames(query.end) : ~query.only_new \/ StartTotal(n) = 0}

IsExample ==
    /\ query.duration > 0
    /\ files = Directory(StartOf(query), ExampleStart, query.end, ExampleEnd)

\* C7: the candidates are the entities of the end snapshot, each with
\* start_total = its start value or 0 and diff = end_total - start_total;
\* only_new removes those with start_total # 0 before truncation; the result
\* is the first min(count, remaining) of them in non-increasing diff order,
\* no omitted remaining candidate having a larger diff than a returned one.
C7_Ranking ==
    pc = "done" /\ result.error = None =>
        LET rows == RowsOfRun(result)
            returned == {rows[k].name : k \in 1..Len(rows)}
        IN  /\ Len(rows) = Min(query.count, Cardinality(Remaining))
            /\ Cardinality(returned) = Len(rows)
            /\ \A k \in 1..Len(rows) :
                   /\ rows[k].name \in Remaining
                   /\ rows[k].start = StartTotal(rows[k].name)
                   /\ rows[k].end = SnapshotTotal(query.end, rows[k].name)
                   /\ rows[k].diff = rows[k].end - rows[k].start
            /\ \A k \in 1..(Len(rows) - 1) : rows[k].diff >= rows[k + 1].diff
            /\ \A n \in Remaining \ returned :
                   \A k \in 1..Len(rows) : GrowthOf(n) <= rows[k].diff
            /\ IsExample /\ query.count = 2 /\ ~query.only_new =>
                   rows = <<Diff("a", 50, 100, 150), Diff("c", 10, 0, 10)>>
            /\ IsExample /\ query.only_new => rows = <<Diff("c", 10, 0, 10)>>

C7_Witness ==
    /\ pc = "done"
    /\ IsExample
    /\ query.only_new
    /\ query.count = 1
    /\ result.error = None
    /\ RowsOfRun(result) = <<Diff("c", 10, 0, 10)>>

\* C8: two executions of top on the same snapshots, count and only_new
\* return the same sequence of entities.
C8_SameRankingEveryRun ==
    previous # <<>> /\ previous.error = None =>
        RowsOfRun(result) = RowsOfRun(previous)

\* C9: if the snapshot of the start date or of the end date cannot be read,
\* top fails with an error naming that date's file and prints nothing, and a
\* missing start snapshot fails the query before the end snapshot is opened.
C9_MissingSnapshotIsFatal ==
    pc = "done" =>
        /\ ~Readable(StartOf(query)) =>
               /\ result.error # None
               /\ result.error[1].path.file = Calendar[StartOf(query)]
               /\ result.stdout = <<>>
               /\ Len(result.opened) = 1
               /\ result.opened[1].file = Calendar[StartOf(query)]
        /\ Readable(StartOf(query)) /\ ~Readable(query.end) =>
               /\ result.error # None
               /\ result.error[1].path.file = Calendar[query.end]
               /\ result.stdout = <<>>

C9_Witness ==
    /\ pc = "done"
    /\ query.duration = 1
    /\ ~Readable(StartOf(query))
    /\ Readable(query.end)
    /\ Len(SnapshotRows(query.end)) = 3
    /\ result.error # None
    /\ result.stdout = <<>>

(***************************************************************************)
(* better_gem_path.  A name is the sequence of the bytes of a &str.        *)
(***************************************************************************)
\* c.is_ascii_lowercase() || c == b'-' || c == b'_' || c.is_ascii_digit()
IsPlainByteOrPercent(c) ==
    c \in 97..122 \/ c = 45 \/ c = 95 \/ c \in 48..57 \/ c = 37

IsPlainByte(c) ==
    c \in 97..122 \/ c = 45 \/ c = 95 \/ c \in 48..57

\* One digit of {:02X}: 0-9, then the uppercase letters A-F.
HexDigit(n) == IF n < 10 THEN 48 + n ELSE 65 + (n - 10)

\* The closure of .map (lines 316-322): the byte itself, or '%' and its two
\* uppercase hexadecimal digits.
EncodeByte(c) ==
    IF IsPlainByte(c) THEN <<c>>
    ELSE <<37, HexDigit(c \div 16), HexDigit(c % 16)>>

\* .collect::<String>() of the encoded bytes.
RECURSIVE EncodeBytes(_)
EncodeBytes(name) ==
    IF Len(name) = 0 THEN <<>>
    ELSE EncodeByte(name[1]) \o EncodeBytes(Tail(name))

\* format!("bettergems/{}.json", ...)
better_gem_path(name) ==
    <<98, 101, 116, 116, 101, 114, 103, 101, 109, 115, 47>>
    \o EncodeBytes(name)
    \o <<46, 106, 115, 111, 110>>

\* The names tried: every one-byte ASCII name, every name of up to
\* MaxNameLen bytes over '%', '1', '4', 'A', and "a a", "AAaa",
\* "foo-bar_baz", "a.b/c" and the two-byte UTF-8 name U+00E9.
RECURSIVE NamesOver(_, _)
NamesOver(bytes, n) ==
    IF n = 0 THEN {<<>>}
    ELSE LET shorter == NamesOver(bytes, n - 1)
         IN  shorter \cup {Append(s, b) : s \in shorter, b \in bytes}

GemNames ==
    {<<b>> : b \in 0..127}
    \cup NamesOver({37, 49, 52, 65}, MaxNameLen)
    \cup {<<97, 32, 97>>, <<65, 65, 97, 97>>,
          <<102, 111, 111, 45, 98, 97, 114, 95, 98, 97, 122>>,
          <<97, 46, 98, 47, 99>>, <<195, 169>>}

InitPath ==
    /\ pc = "ready"
    /\ names \in GemNames \X GemNames
    /\ paths = <<>>
    /\ better_gems = <<>> /\ downloads = <<>>
    /\ series = <<>> /\ dates = <<>>
    /\ files = <<>> /\ query = <<>> /\ result = <<>> /\ previous = <<>>

Path ==
    /\ pc = "ready"
    /\ paths' = <<better_gem_path(names[1]), better_gem_path(names[2])>>
    /\ pc' = "done"
    /\ UNCHANGED <<better_gems, downloads, series, dates, files, query,
                   result, previous, names>>

NextPath == Path

SpecPath == InitPath /\ [][NextPath]_vars

(***************************************************************************)
(* Properties of better_gem_path.                                          *)
(***************************************************************************)
\* The bytes the claim says are copied: a-z, 0-9, '-' and '_'.
CopiedBytes ==
    {97, 98, 99, 100, 101, 102, 103, 104, 105, 106, 107, 108, 109, 110, 111,
     112, 113, 114, 115, 116, 117, 118, 119, 120, 121, 122}
    \cup {48, 49, 50, 51, 52, 53, 54, 55, 56, 57} \cup {45, 95}

\* "0123456789ABCDEF"
UpperHex == <<48, 49, 50, 51, 52, 53, 54, 55, 56, 57, 65, 66, 67, 68, 69, 70>>

\* Whether `encoded`, read from position p, spells the bytes of `name` from
\* position k on: a copied byte as itself, any other as '%' and two hex digits.
RECURSIVE Spells(_, _, _, _)
Spells(encoded, p, name, k) ==
    IF k > Len(name) THEN p = Len(encoded) + 1
    ELSE IF name[k] \in CopiedBytes
    THEN /\ p <= Len(encoded)
         /\ encoded[p] = name[k]
         /\ Spells(encoded, p + 1, name, k + 1)
    ELSE /\ p + 2 <= Len(encoded)
         /\ encoded[p] = 37
         /\ encoded[p + 1] = UpperHex[(name[k] \div 16) + 1]
         /\ encoded[p + 2] = UpperHex[(name[k] % 16) + 1]
         /\ Spells(encoded, p + 3, name, k + 1)

\* The part of a path between "bettergems/" and ".json".
Stem(path) == SubSeq(path, 12, Len(path) - 5)

\* C10: the path is "bettergems/" + E + ".json", E copying the bytes a-z,
\* 0-9, '-', '_' and replacing every other byte by '%' and its two uppercase
\* hexadecimal digits; two different names never get the same path.
C10_PathEncoding ==
    pc = "done" =>
        /\ \A i \in 1..2 :
               /\ Len(paths[i]) >= 16
               /\ SubSeq(paths[i], 1, 11)
                      = <<98, 101, 116, 116, 101, 114, 103, 101, 109, 115, 47>>
               /\ SubSeq(paths[i], Len(paths[i]) - 4, Len(paths[i]))
                      = <<46, 106, 115, 111, 110>>
               /\ Spells(Stem(paths[i]), 1, names[i], 1)
        /\ names[1] # names[2] => paths[1] # paths[2]
        /\ names[1] = <<65, 65, 97, 97>> =>
               paths[1] = <<98, 101, 116, 116, 101, 114, 103, 101, 109, 115,
                            47, 37, 52, 49, 37, 52, 49, 97, 97, 46, 106, 115,
                            111, 110>>
        /\ names[1] = <<97, 32, 97>> =>
               paths[1] = <<98, 101, 116, 116, 101, 114, 103, 101, 109, 115,
                            47, 97, 37, 50, 48, 97, 46, 106, 115, 111, 110>>

C10_Witness ==
    /\ pc = "done"
    /\ names = << <<37, 52, 49>>, <<65>> >>
    /\ paths[1] = <<98, 101, 116, 116, 101, 114, 103, 101, 109, 115, 47,
                    37, 50, 53, 52, 49, 46, 106, 115, 111, 110>>
    /\ paths[2] = <<98, 101, 116, 116, 101, 114, 103, 101, 109, 115, 47,
                    37, 52, 49, 46, 106, 115, 111, 110>>

=============================================================================
